---- MODULE Spec2Model ----
(***************************************************************************)
(* Model of the DeepEval migration pilot: evaluate_with_deepeval           *)
(* (migration_pilot/run_pilot.py) builds one result per test case, and     *)
(* compare_results (migration_pilot/comparison.py) folds the results into  *)
(* agreement statistics.                                                   *)
(*                                                                         *)
(* Python values.  A scalar slot holds one of the strings "True", "False", *)
(* "None" or a text; a slot that holds a dict or None holds a TLA+         *)
(* function (the dict, its DOMAIN being the keys present) or NoneObj.      *)
(* Scores and thresholds are in tenths (5 is 0.5).  A float rate is the    *)
(* reduced fraction <<num, den>>, 0.0 being <<0, 1>>.                      *)
(***************************************************************************)
EXTENDS Integers, Sequences, FiniteSets, TLC

VARIABLES test_cases, threshold, results, pc, idx, comparison, returned,
          dataset, limit

vars == <<test_cases, threshold, results, pc, idx, comparison, returned,
          dataset, limit>>

\* ------------------------------------------------------------------ bounds
MaxLen == 2
MaxCases == 2
MaxCalls == 2
MaxEntries == 3

\* ---------------------------------------------------------- Python values
None == "None"
NoneObj == [py |-> "None"]

PyBool(b) == IF b THEN "True" ELSE "False"

\* truth value of a scalar (bool, None or str)
Truthy(v) == v \notin {"False", "None", ""}

\* truth value of a dict-or-None slot
TruthyDict(d) == d # NoneObj /\ DOMAIN d # {}

PyNot(v) == PyBool(~Truthy(v))

\* a and b: the first operand when it is falsy, else the second
PyAnd(a, b) == IF Truthy(a) THEN b ELSE a

\* dict.get(k, default)
Get(d, k, default) == IF k \in DOMAIN d THEN d[k] ELSE default

RECURSIVE Gcd(_, _)
Gcd(a, b) == IF b = 0 THEN a ELSE Gcd(b, a % b)

ZeroRate == <<0, 1>>

DivFloor(a, t) == <<a \div t, 1>>

\* float division a / t of two counters, t > 0
Div(a, t) == <<a \div Gcd(a, t), t \div Gcd(a, t)>>

\* ------------------------------------------------------------ metric names
metric_names ==
    <<"is_question_answered", "requires_additional_information",
      "is_speculative", "is_confident">>

Metrics == {metric_names[k] : k \in 1..Len(metric_names)}

\* ---------------------------------------------------- evaluate_with_deepeval
DefaultThreshold == 5

\* one value of the deepeval_scores dict comprehension
ScoreEntry(score, thr, reason) ==
    [score |-> score, threshold |-> thr,
     passed |-> PyBool(score >= thr), reason |-> reason]

ComprehensiveAnswerNoNot(deepeval_scores) ==
    PyAnd(PyAnd(PyAnd(deepeval_scores["is_question_answered"].passed,
                      PyNot(deepeval_scores["requires_additional_information"].passed)),
                deepeval_scores["is_speculative"].passed),
          deepeval_scores["is_confident"].passed)

ComprehensiveAnswer(deepeval_scores) ==
    PyAnd(PyAnd(PyAnd(deepeval_scores["is_question_answered"].passed,
                      PyNot(deepeval_scores["requires_additional_information"].passed)),
                PyNot(deepeval_scores["is_speculative"].passed)),
          deepeval_scores["is_confident"].passed)

\* the deepeval_scores dict built from what the four metrics measured
CollectScores(measured, thr) ==
    [m \in Metrics |-> ScoreEntry(measured[m].score, thr, measured[m].reason)]

\* the result appended when every metric was measured
SuccessResult(test_case, measured, thr) ==
    [file_name |-> test_case.file_name,
     question |-> test_case.question,
     backend_answer |-> test_case.backend_answer,
     deepeval_scores |-> CollectScores(measured, thr),
     deepeval_comprehensive_answer |->
         ComprehensiveAnswer(CollectScores(measured, thr)),
     backend_evaluation |-> test_case.backend_evaluation]

ErrorResultPartialScores(test_case, e) ==
    [file_name |-> test_case.file_name,
     question |-> test_case.question,
     backend_answer |-> test_case.backend_answer,
     deepeval_scores |->
         [m \in {"is_question_answered"} |-> ScoreEntry(DefaultThreshold, DefaultThreshold, None)],
     deepeval_comprehensive_answer |-> None,
     backend_evaluation |-> test_case.backend_evaluation,
     error |-> e]

ErrorResult(test_case, e) ==
    [file_name |-> test_case.file_name,
     question |-> test_case.question,
     backend_answer |-> test_case.backend_answer,
     deepeval_scores |-> NoneObj,
     deepeval_comprehensive_answer |-> None,
     backend_evaluation |-> test_case.backend_evaluation,
     error |-> e]

\* --------------------------------------------------------- compare_results
InitStats ==
    [agreements |-> 0, disagreements |-> 0, total |-> 0,
     agreement_rate |-> ZeroRate,
     backend_true |-> 0, backend_false |-> 0,
     deepeval_true |-> 0, deepeval_false |-> 0]

InitComparisonSharedList(rs) ==
    [summary |->
         [total_cases |-> Len(rs), successful_evaluations |-> 0,
          failed_evaluations |-> 0, agreement_rate |-> ZeroRate],
     metric_comparisons |-> [m \in Metrics |-> InitStats],
     comprehensive_answer_comparison |->
         [agreements |-> 0, disagreements |-> 0, agreement_rate |-> ZeroRate],
     disagreements |->
         IF comparison = NoneObj THEN <<>> ELSE comparison.disagreements]

\* the comparison dict before the loop
InitComparison(rs) ==
    [summary |->
         [total_cases |-> Len(rs), successful_evaluations |-> 0,
          failed_evaluations |-> 0, agreement_rate |-> ZeroRate],
     metric_comparisons |-> [m \in Metrics |-> InitStats],
     comprehensive_answer_comparison |->
         [agreements |-> 0, disagreements |-> 0, agreement_rate |-> ZeroRate],
     disagreements |-> <<>>]

IsFailedScoresOnly(result) ==
    ~TruthyDict(Get(result, "deepeval_scores", NoneObj))

\* if result.get("error") or not result.get("deepeval_scores")
IsFailed(result) ==
    IF Truthy(Get(result, "error", None)) THEN TRUE
    ELSE ~TruthyDict(Get(result, "deepeval_scores", NoneObj))

CountFailedSkipped(c) == c

CountFailedAlsoSuccessful(c) ==
    [c EXCEPT !.summary.failed_evaluations = @ + 1,
              !.summary.successful_evaluations = @ + 1]

CountFailed(c) == [c EXCEPT !.summary.failed_evaluations = @ + 1]

CountSuccessful(c) == [c EXCEPT !.summary.successful_evaluations = @ + 1]

\* the entry appended to comparison["disagreements"]
Disagreement(result, metric, backend_value) ==
    [file_name |-> result.file_name,
     question |-> result.question,
     metric |-> metric,
     backend_value |-> backend_value,
     deepeval_value |-> result.deepeval_scores[metric].passed,
     deepeval_score |-> result.deepeval_scores[metric].score,
     deepeval_reason |-> Get(result.deepeval_scores[metric], "reason", "N/A")]

UpdateStatsNoBackendFalse(stats, backend_value, deepeval_passed) ==
    [stats EXCEPT
        !.total = @ + 1,
        !.backend_true = IF Truthy(backend_value) THEN @ + 1 ELSE @,
        !.deepeval_true = IF Truthy(deepeval_passed) THEN @ + 1 ELSE @,
        !.deepeval_false = IF Truthy(deepeval_passed) THEN @ ELSE @ + 1,
        !.agreements = IF backend_value = deepeval_passed THEN @ + 1 ELSE @,
        !.disagreements = IF backend_value = deepeval_passed THEN @ ELSE @ + 1]

UpdateStatsAgreeOnTrue(stats, backend_value, deepeval_passed) ==
    [stats EXCEPT
        !.total = @ + 1,
        !.backend_true = IF Truthy(backend_value) THEN @ + 1 ELSE @,
        !.backend_false = IF Truthy(backend_value) THEN @ ELSE @ + 1,
        !.deepeval_true = IF Truthy(deepeval_passed) THEN @ + 1 ELSE @,
        !.deepeval_false = IF Truthy(deepeval_passed) THEN @ ELSE @ + 1,
        !.agreements =
            IF Truthy(backend_value) /\ Truthy(deepeval_passed) THEN @ + 1 ELSE @,
        !.disagreements =
            IF Truthy(backend_value) /\ Truthy(deepeval_passed) THEN @ ELSE @ + 1]

\* the counters of one metric after one record that has a backend value
UpdateStats(stats, backend_value, deepeval_passed) ==
    [stats EXCEPT
        !.total = @ + 1,
        !.backend_true = IF Truthy(backend_value) THEN @ + 1 ELSE @,
        !.backend_false = IF Truthy(backend_value) THEN @ ELSE @ + 1,
        !.deepeval_true = IF Truthy(deepeval_passed) THEN @ + 1 ELSE @,
        !.deepeval_false = IF Truthy(deepeval_passed) THEN @ ELSE @ + 1,
        !.agreements = IF backend_value = deepeval_passed THEN @ + 1 ELSE @,
        !.disagreements = IF backend_value = deepeval_passed THEN @ ELSE @ + 1]

BackendAbsentOrFalse(backend_value) == ~Truthy(backend_value)

\* whether the metric loop skips this metric of the record
BackendAbsent(backend_value) == backend_value = None

CompareMetricPrepend(c, result, metric) ==
    LET backend_value == Get(result.backend_evaluation, metric, None)
        deepeval_passed == result.deepeval_scores[metric].passed
    IN  IF BackendAbsent(backend_value) THEN c
        ELSE [c EXCEPT
                !.metric_comparisons[metric] =
                    UpdateStats(@, backend_value, deepeval_passed),
                !.disagreements =
                    IF backend_value = deepeval_passed THEN @
                    ELSE <<Disagreement(result, metric, backend_value)>> \o @]

\* one iteration of the loop over metric_names
CompareMetric(c, result, metric) ==
    LET backend_value == Get(result.backend_evaluation, metric, None)
        deepeval_passed == result.deepeval_scores[metric].passed
    IN  IF BackendAbsent(backend_value) THEN c
        ELSE [c EXCEPT
                !.metric_comparisons[metric] =
                    UpdateStats(@, backend_value, deepeval_passed),
                !.disagreements =
                    IF backend_value = deepeval_passed THEN @
                    ELSE Append(@, Disagreement(result, metric, backend_value))]

\* the first k iterations of the loop over metric_names, in order
RECURSIVE CompareMetrics(_, _, _)
CompareMetrics(c, result, k) ==
    IF k = 0 THEN c
    ELSE CompareMetric(CompareMetrics(c, result, k - 1), result, metric_names[k])

BackendCompNoNot(backend_eval) ==
    PyAnd(PyAnd(PyAnd(Get(backend_eval, "is_question_answered", "False"),
                      PyNot(Get(backend_eval, "requires_additional_information", "False"))),
                Get(backend_eval, "is_speculative", "False")),
          Get(backend_eval, "is_confident", "False"))

BackendCompDefaultTrue(backend_eval) ==
    PyAnd(PyAnd(PyAnd(Get(backend_eval, "is_question_answered", "True"),
                      PyNot(Get(backend_eval, "requires_additional_information", "True"))),
                PyNot(Get(backend_eval, "is_speculative", "True"))),
          Get(backend_eval, "is_confident", "True"))

BackendComp(backend_eval) ==
    PyAnd(PyAnd(PyAnd(Get(backend_eval, "is_question_answered", "False"),
                      PyNot(Get(backend_eval, "requires_additional_information", "False"))),
                PyNot(Get(backend_eval, "is_speculative", "False"))),
          Get(backend_eval, "is_confident", "False"))

CompareComprehensiveSwapped(c, result) ==
    IF BackendComp(result.backend_evaluation) = result.deepeval_comprehensive_answer
    THEN [c EXCEPT !.comprehensive_answer_comparison.disagreements = @ + 1]
    ELSE [c EXCEPT !.comprehensive_answer_comparison.agreements = @ + 1]

CompareComprehensiveAgreementsOnly(c, result) ==
    IF BackendComp(result.backend_evaluation) = result.deepeval_comprehensive_answer
    THEN [c EXCEPT !.comprehensive_answer_comparison.agreements = @ + 1]
    ELSE c

\* the comparison of the two comprehensive answers
CompareComprehensive(c, result) ==
    IF BackendComp(result.backend_evaluation) = result.deepeval_comprehensive_answer
    THEN [c EXCEPT !.comprehensive_answer_comparison.agreements = @ + 1]
    ELSE [c EXCEPT !.comprehensive_answer_comparison.disagreements = @ + 1]

\* the loop body for a record that is not failed and raises nothing
CompareEvaluatedRecord(c, result) ==
    CompareComprehensive(
        CompareMetrics(CountSuccessful(c), result, Len(metric_names)), result)

\* the number of metrics of the record the loop gets through: it stops at the
\* first one deepeval_scores has no entry for (KeyError)
MetricsBeforeKeyError(result) ==
    LET missing == {k \in 1..Len(metric_names) :
                        metric_names[k] \notin DOMAIN result.deepeval_scores}
    IN  IF missing = {} THEN Len(metric_names)
        ELSE (CHOOSE k \in missing : \A j \in missing : k <= j) - 1

\* result["backend_evaluation"] is missing (KeyError) or None (AttributeError
\* at backend_eval.get)
RaisesAtBackend(result) ==
    Get(result, "backend_evaluation", NoneObj) = NoneObj

RaisesInMetrics(result) == MetricsBeforeKeyError(result) < Len(metric_names)

RaisesAtComprehensive(result) ==
    "deepeval_comprehensive_answer" \notin DOMAIN result

\* an evaluated record on which the loop body raises
Raises(result) ==
    IF RaisesAtBackend(result) THEN TRUE
    ELSE IF RaisesInMetrics(result) THEN TRUE
    ELSE RaisesAtComprehensive(result)

\* what the loop body has done to the comparison when it raises
CompareUntilRaise(c, result) ==
    IF RaisesAtBackend(result) THEN CountSuccessful(c)
    ELSE CompareMetrics(CountSuccessful(c), result, MetricsBeforeKeyError(result))

RateVacuous(agreements, total, old) ==
    IF total > 0 THEN Div(agreements, total) ELSE <<1, 1>>

\* agreements / total, or the 0.0 the rate was initialised with
Rate(agreements, total, old) ==
    IF total > 0 THEN Div(agreements, total) ELSE old

CalculateRatesSummaryFromMetrics(c) ==
    LET comp_rate ==
            Rate(c.comprehensive_answer_comparison.agreements,
                 c.summary.successful_evaluations,
                 c.comprehensive_answer_comparison.agreement_rate)
        m1 == c.metric_comparisons["is_question_answered"]
        m2 == c.metric_comparisons["requires_additional_information"]
        m3 == c.metric_comparisons["is_speculative"]
        m4 == c.metric_comparisons["is_confident"]
    IN  [c EXCEPT
            !.comprehensive_answer_comparison.agreement_rate = comp_rate,
            !.summary.agreement_rate =
                Rate(m1.agreements + m2.agreements + m3.agreements + m4.agreements,
                     m1.total + m2.total + m3.total + m4.total, @),
            !.metric_comparisons =
                [m \in Metrics |->
                    [c.metric_comparisons[m] EXCEPT !.agreement_rate =
                        Rate(c.metric_comparisons[m].agreements,
                             c.metric_comparisons[m].total, @)]]]

\* the code after the loop
CalculateRates(c) ==
    LET comp_rate ==
            Rate(c.comprehensive_answer_comparison.agreements,
                 c.summary.successful_evaluations,
                 c.comprehensive_answer_comparison.agreement_rate)
    IN  [c EXCEPT
            !.comprehensive_answer_comparison.agreement_rate = comp_rate,
            !.summary.agreement_rate =
                IF c.summary.successful_evaluations > 0 THEN comp_rate ELSE @,
            !.metric_comparisons =
                [m \in Metrics |->
                    [c.metric_comparisons[m] EXCEPT !.agreement_rate =
                        Rate(c.metric_comparisons[m].agreements,
                             c.metric_comparisons[m].total, @)]]]

\* ------------------------------------------------------------------ inputs
FileNames == {"a.pdf", "b.pdf"}

\* scores below and at the threshold
Scores == {DefaultThreshold - 1, DefaultThreshold}

\* every backend judgment: each flag missing, null, true or false
BackendDicts ==
    UNION {[S -> {"True", "False", None}] : S \in SUBSET Metrics}

AnsweredBackend ==
    [m \in Metrics |-> PyBool(m \in {"is_question_answered", "is_confident"})]

\* the backend judgments of the multi-record inputs: complete (comprehensive
\* answer true and false), one flag missing, one flag null, empty
SomeBackends ==
    {AnsweredBackend,
     [AnsweredBackend EXCEPT !["is_speculative"] = "True"],
     [m \in Metrics \ {"requires_additional_information"} |-> AnsweredBackend[m]],
     [AnsweredBackend EXCEPT !["is_question_answered"] = None],
     [m \in {} |-> None]}

\* what the four metrics hold after measure(): a score and a reason each
Measured(scores, reason) ==
    [m \in Metrics |-> [score |-> scores[m], reason |-> reason]]

AllMeasured == {Measured(sc, "why") : sc \in [Metrics -> Scores]}

SomeMeasured ==
    {Measured([m \in Metrics |->
                 IF m \in on THEN DefaultThreshold ELSE DefaultThreshold - 1], "why") :
        on \in {{"is_question_answered", "is_confident"}, {"is_confident"}}}

\* what the judge can leave behind in the pilot: every score combination with
\* a reason, and one without reasons
JudgeOutcomes ==
    AllMeasured \cup
    {Measured([m \in Metrics |-> DefaultThreshold - 1], None)}

ErrorTexts == {"", "boom"}

TestCase(file_name, backend_evaluation) ==
    [file_name |-> file_name, question |-> "q1", golden_answer |-> "gold",
     backend_answer |-> "ans", backend_evaluation |-> backend_evaluation]

TestCases ==
    {TestCase("a.pdf", AnsweredBackend),
     TestCase("b.pdf",
        [m \in Metrics \ {"requires_additional_information"} |-> AnsweredBackend[m]]),
     TestCase("b.pdf", NoneObj)}

\* records as evaluate_with_deepeval writes them, with any external composite
WellFormed(file_name, backend_evaluation, measured, comp) ==
    [SuccessResult(TestCase(file_name, backend_evaluation), measured, DefaultThreshold)
        EXCEPT !.deepeval_comprehensive_answer = comp]

Without(r, key) == [k \in DOMAIN r \ {key} |-> r[k]]

With(r, key, v) == [k \in DOMAIN r \cup {key} |-> IF k = key THEN v ELSE r[k]]

Typical == SuccessResult(TestCase("a.pdf", AnsweredBackend),
                         Measured([m \in Metrics |-> DefaultThreshold], "why"),
                         DefaultThreshold)

\* records without an external judgment, or with an error
FailedRecords ==
    {ErrorResult(TestCase("a.pdf", AnsweredBackend), e) : e \in ErrorTexts} \cup
    {With(Typical, "error", "boom"),
     [Typical EXCEPT !.deepeval_scores = [m \in {} |-> None]],
     Without(Typical, "deepeval_scores")}

\* records with an external judgment that lack something the loop body reads
MalformedRecords ==
    {[Typical EXCEPT !.backend_evaluation = NoneObj],
     Without(Typical, "backend_evaluation"),
     Without(Typical, "deepeval_comprehensive_answer"),
     [Typical EXCEPT !.deepeval_scores =
         [m \in {"is_question_answered"} |-> Typical.deepeval_scores[m]]]}

\* every single record with an external judgment
SingleRecords ==
    {WellFormed("a.pdf", be, ms, comp) :
        be \in BackendDicts \cup {NoneObj}, ms \in AllMeasured,
        comp \in {"True", "False"}}

\* the records the multi-record inputs are made of
Records ==
    {WellFormed(f, be, ms, ComprehensiveAnswer(CollectScores(ms, DefaultThreshold))) :
        f \in FileNames, be \in SomeBackends, ms \in SomeMeasured}
    \cup FailedRecords \cup MalformedRecords

SeqsUpTo(S, n) == UNION {[1..k -> S] : k \in 0..n}

\* --------------------------------------------------------------- the system
\* compare_results called on a list of results
InitDirect ==
    /\ test_cases = <<>>
    /\ threshold = DefaultThreshold
    /\ results \in SeqsUpTo(Records, MaxLen) \cup {<<r>> : r \in SingleRecords}
    /\ pc = "call"
    /\ idx = 0
    /\ comparison = NoneObj
    /\ returned = <<>>
    /\ dataset = <<>>
    /\ limit = NoneObj

\* main() with the test cases load_backend_test_data returned
InitPilot ==
    /\ test_cases \in SeqsUpTo(TestCases, MaxCases)
    /\ threshold = DefaultThreshold
    /\ results = <<>>
    /\ pc = "evaluate"
    /\ idx = 0
    /\ comparison = NoneObj
    /\ returned = <<>>
    /\ dataset = <<>>
    /\ limit = NoneObj

Init == InitDirect \/ InitPilot

\* one iteration of evaluate_with_deepeval in which every measure() returns
MeasureOk ==
    /\ pc = "evaluate"
    /\ Len(results) < Len(test_cases)
    /\ \E measured \in JudgeOutcomes :
         results' = Append(results,
             SuccessResult(test_cases[Len(results) + 1], measured, threshold))
    /\ UNCHANGED <<test_cases, threshold, pc, idx, comparison, returned, dataset, limit>>

\* one iteration in which the try block raises
MeasureRaises ==
    /\ pc = "evaluate"
    /\ Len(results) < Len(test_cases)
    /\ \E e \in ErrorTexts :
         results' = Append(results, ErrorResult(test_cases[Len(results) + 1], e))
    /\ UNCHANGED <<test_cases, threshold, pc, idx, comparison, returned, dataset, limit>>

\* evaluate_with_deepeval returns and main() passes the results on
EvaluateReturn ==
    /\ pc = "evaluate"
    /\ Len(results) = Len(test_cases)
    /\ pc' = "call"
    /\ UNCHANGED <<test_cases, threshold, results, idx, comparison, returned, dataset, limit>>

\* compare_results builds the comparison dict
CompareStart ==
    /\ pc = "call"
    /\ comparison' = InitComparison(results)
    /\ idx' = 0
    /\ pc' = "compare"
    /\ UNCHANGED <<test_cases, threshold, results, returned, dataset, limit>>

\* the loop body on a failed record
CompareFailed ==
    /\ pc = "compare"
    /\ idx < Len(results)
    /\ IsFailed(results[idx + 1])
    /\ comparison' = CountFailed(comparison)
    /\ idx' = idx + 1
    /\ UNCHANGED <<test_cases, threshold, results, pc, returned, dataset, limit>>

\* the loop body on an evaluated record
CompareEvaluated ==
    /\ pc = "compare"
    /\ idx < Len(results)
    /\ ~IsFailed(results[idx + 1])
    /\ ~Raises(results[idx + 1])
    /\ comparison' = CompareEvaluatedRecord(comparison, results[idx + 1])
    /\ idx' = idx + 1
    /\ UNCHANGED <<test_cases, threshold, results, pc, returned, dataset, limit>>

\* the loop body raises KeyError or AttributeError out of compare_results
CompareRaise ==
    /\ pc = "compare"
    /\ idx < Len(results)
    /\ ~IsFailed(results[idx + 1])
    /\ Raises(results[idx + 1])
    /\ comparison' = CompareUntilRaise(comparison, results[idx + 1])
    /\ pc' = "raised"
    /\ UNCHANGED <<test_cases, threshold, results, idx, returned, dataset, limit>>

\* the rates are calculated and the comparison is returned
CompareReturn ==
    /\ pc = "compare"
    /\ idx = Len(results)
    /\ comparison' = CalculateRates(comparison)
    /\ returned' = Append(returned, comparison')
    /\ pc' = "done"
    /\ UNCHANGED <<test_cases, threshold, results, idx, dataset, limit>>

\* a caller of compare_results calls it again on the same list; main() calls
\* it once
CallAgain ==
    /\ pc = "done"
    /\ test_cases = <<>>
    /\ Len(returned) < MaxCalls
    /\ pc' = "call"
    /\ UNCHANGED <<test_cases, threshold, results, idx, comparison, returned,
                   dataset, limit>>

Next ==
    \/ MeasureOk
    \/ MeasureRaises
    \/ EvaluateReturn
    \/ CompareStart
    \/ CompareFailed
    \/ CompareEvaluated
    \/ CompareRaise
    \/ CompareReturn
    \/ CallAgain

Spec == Init /\ [][Next]_vars

\* ------------------------------------------------------- load_test_cases
\* The three JSON files, flattened in the iteration order of
\* backend_evaluation_results.json: one entry per (file, question) of it, with
\* the golden answer and the backend answer the other two files have for it.

\* the entry is in golden_answers.json and in backend_answers.json
InAllFiles(entry) ==
    "golden_answer" \in DOMAIN entry /\ "backend_answer" \in DOMAIN entry

\* the BackendTestCase built from an entry
CaseOf(entry) ==
    [file_name |-> entry.file_name, question |-> entry.question,
     golden_answer |-> entry.golden_answer,
     backend_answer |-> entry.backend_answer,
     backend_evaluation |-> entry.backend_evaluation]

\* if limit and len(test_cases) >= limit
LimitReached(lim, cases) ==
    IF lim = NoneObj THEN FALSE
    ELSE IF lim.int = 0 THEN FALSE
    ELSE Len(cases) >= lim.int

\* the entry at position k with or without its two answers
EntriesAt(k) ==
    LET base == [file_name |-> "a.pdf", question |-> "q" \o ToString(k),
                 backend_evaluation |-> AnsweredBackend]
    IN  {base,
         With(base, "golden_answer", "gold"),
         With(base, "backend_answer", "ans"),
         With(With(base, "golden_answer", "gold"), "backend_answer", "ans")}

Datasets ==
    UNION {{d \in [1..n -> UNION {EntriesAt(k) : k \in 1..n}] :
               \A k \in 1..n : d[k] \in EntriesAt(k)} : n \in 0..MaxEntries}

\* --limit: absent, or any integer argparse accepts
Limits == {NoneObj} \cup {[int |-> n] : n \in -1..MaxEntries}

\* load_test_cases(limit) is called
InitLoad ==
    /\ test_cases = <<>>
    /\ threshold = DefaultThreshold
    /\ results = <<>>
    /\ pc = "load"
    /\ idx = 0
    /\ comparison = NoneObj
    /\ returned = <<>>
    /\ dataset \in Datasets
    /\ limit \in Limits

\* an iteration that continues: the entry is not in all three files
LoadSkip ==
    /\ pc = "load"
    /\ idx < Len(dataset)
    /\ ~InAllFiles(dataset[idx + 1])
    /\ idx' = idx + 1
    /\ UNCHANGED <<test_cases, threshold, results, pc, comparison, returned,
                   dataset, limit>>

\* an iteration that appends a test case, and returns when the limit is reached
LoadAppend ==
    /\ pc = "load"
    /\ idx < Len(dataset)
    /\ InAllFiles(dataset[idx + 1])
    /\ test_cases' = Append(test_cases, CaseOf(dataset[idx + 1]))
    /\ idx' = idx + 1
    /\ pc' = IF LimitReached(limit, test_cases') THEN "loaded" ELSE "load"
    /\ UNCHANGED <<threshold, results, comparison, returned, dataset, limit>>

\* the return after the loops
LoadReturn ==
    /\ pc = "load"
    /\ idx = Len(dataset)
    /\ pc' = "loaded"
    /\ UNCHANGED <<test_cases, threshold, results, idx, comparison, returned,
                   dataset, limit>>

NextLoad == LoadSkip \/ LoadAppend \/ LoadReturn

SpecLoad == InitLoad /\ [][NextLoad]_vars

\* ------------------------------------------------------------------ claims
Summary == comparison.summary

Composite == comparison.comprehensive_answer_comparison

Stats(m) == comparison.metric_comparisons[m]

\* compare_results is running or has ended
Comparing == pc \in {"compare", "done", "raised"}

\* the loop is about to process a record, Current
AtRecord == pc = "compare" /\ idx < Len(results)

Current == results[idx + 1]

\* the record has a non-empty external judgment
ExternalPresent(r) ==
    /\ "deepeval_scores" \in DOMAIN r
    /\ r.deepeval_scores # NoneObj
    /\ DOMAIN r.deepeval_scores # {}

\* the external judgment of the record has an entry for every metric
ExternalComplete(r) == \A m \in Metrics : m \in DOMAIN r.deepeval_scores

\* the record has an error that is not empty
ErrorSet(r) == "error" \in DOMAIN r /\ r.error \notin {None, ""}

\* the backend judgment of the record is a dict with a boolean for m
BackendHas(r, m) ==
    /\ "backend_evaluation" \in DOMAIN r
    /\ r.backend_evaluation # NoneObj
    /\ m \in DOMAIN r.backend_evaluation
    /\ r.backend_evaluation[m] \in {"True", "False"}

\* C1: when compare_results returns, successful_evaluations +
\* failed_evaluations equals total_cases, the length of the input.
C1_CountsPartitionInput ==
    pc = "done" =>
        /\ Summary.total_cases = Len(results)
        /\ Summary.successful_evaluations + Summary.failed_evaluations
               = Summary.total_cases

C1_Witness ==
    /\ pc = "done"
    /\ Summary.successful_evaluations >= 1
    /\ Summary.failed_evaluations >= 1

\* C2: after every prefix of the records, and in the result, each metric has
\* agreements + disagreements = total, backend_true + backend_false = total
\* and deepeval_true + deepeval_false = total.
C2_MetricCountersSumToTotal ==
    Comparing =>
        \A m \in Metrics :
            /\ Stats(m).agreements + Stats(m).disagreements = Stats(m).total
            /\ Stats(m).backend_true + Stats(m).backend_false = Stats(m).total
            /\ Stats(m).deepeval_true + Stats(m).deepeval_false = Stats(m).total

C2_Witness ==
    /\ pc = "compare"
    /\ 0 < idx
    /\ idx < Len(results)
    /\ \E m \in Metrics : Stats(m).backend_false >= 1 /\ Stats(m).disagreements >= 1
    /\ \E m \in Metrics : Stats(m).backend_true >= 1 /\ Stats(m).agreements >= 1

\* C3: total[m] is the number of evaluated records whose backend judgment has
\* a value for m, whatever the record's other flags are, so no total exceeds
\* successful_evaluations.
C3_TotalCountsBackendValues ==
    pc \in {"compare", "done"} =>
        \A m \in Metrics :
            /\ Stats(m).total =
                 Cardinality({i \in 1..idx :
                     /\ ExternalPresent(results[i])
                     /\ ~ErrorSet(results[i])
                     /\ BackendHas(results[i], m)})
            /\ Stats(m).total <= Summary.successful_evaluations

C3_Witness ==
    /\ pc = "done"
    /\ Stats("requires_additional_information").total = 0
    /\ Stats("is_question_answered").total = 1
    /\ Stats("is_speculative").backend_false = 1
    /\ Stats("is_confident").total = 1
    /\ Summary.successful_evaluations = 1

\* C4: processing a record without an external judgment adds one to
\* failed_evaluations and changes nothing else of the comparison.
C4_FailedRecordFrame ==
    [][(AtRecord /\ ~ExternalPresent(Current)) =>
          /\ comparison'.summary =
                 [Summary EXCEPT !.failed_evaluations = @ + 1]
          /\ comparison'.metric_comparisons = comparison.metric_comparisons
          /\ comparison'.comprehensive_answer_comparison = Composite
          /\ comparison'.disagreements = comparison.disagreements]_vars

C4_Witness ==
    /\ pc = "compare"
    /\ idx = 2
    /\ ~ExternalPresent(results[2])
    /\ Summary.failed_evaluations = 1
    /\ Summary.successful_evaluations = 1
    /\ Len(comparison.disagreements) >= 1

\* C5 as stated: a record is counted as evaluated exactly when its
\* deepeval_scores is present, and as failed otherwise.
C5_ClassifiedByScoresOnly ==
    [][AtRecord =>
          IF ExternalPresent(Current)
          THEN /\ comparison'.summary.successful_evaluations
                          = Summary.successful_evaluations + 1
                   /\ comparison'.summary.failed_evaluations
                          = Summary.failed_evaluations
              ELSE /\ comparison'.summary.failed_evaluations
                          = Summary.failed_evaluations + 1
                   /\ comparison'.summary.successful_evaluations
                          = Summary.successful_evaluations]_vars

\* C5 amended: a record is counted as evaluated exactly when its
\* deepeval_scores is present and non-empty and it has no non-empty error,
\* and as failed otherwise.
C5_ClassifiedByScoresAndError ==
    [][AtRecord =>
          IF ExternalPresent(Current) /\ ~ErrorSet(Current)
          THEN /\ comparison'.summary.successful_evaluations
                          = Summary.successful_evaluations + 1
                   /\ comparison'.summary.failed_evaluations
                          = Summary.failed_evaluations
              ELSE /\ comparison'.summary.failed_evaluations
                          = Summary.failed_evaluations + 1
                   /\ comparison'.summary.successful_evaluations
                          = Summary.successful_evaluations]_vars

C5_Witness ==
    /\ pc = "done"
    /\ Len(results) = 2
    /\ ExternalPresent(results[1]) /\ ErrorSet(results[1])
    /\ ExternalPresent(results[2]) /\ ~ErrorSet(results[2])
    /\ Summary.failed_evaluations = 1
    /\ Summary.successful_evaluations = 1

\* the comprehensive answer of four booleans
Comprehensive(answered, additional, speculative, confident) ==
    answered /\ ~additional /\ ~speculative /\ confident

\* the record's backend judgment holds all four flags
AllFlags(r) == \A m \in Metrics : BackendHas(r, m)

BackendFormula(r) ==
    Comprehensive(r.backend_evaluation["is_question_answered"] = "True",
                  r.backend_evaluation["requires_additional_information"] = "True",
                  r.backend_evaluation["is_speculative"] = "True",
                  r.backend_evaluation["is_confident"] = "True")

\* C6: for an evaluated record with all four backend flags, the backend
\* composite is is_question_answered and not requires_additional_information
\* and not is_speculative and is_confident, and the record is a composite
\* agreement exactly when that equals its external composite flag, else a
\* composite disagreement.
C6_BackendCompositeFormula ==
    [][(/\ AtRecord
        /\ ExternalPresent(Current) /\ ~ErrorSet(Current)
        /\ ExternalComplete(Current)
        /\ AllFlags(Current)
        /\ "deepeval_comprehensive_answer" \in DOMAIN Current) =>
           LET agree == BackendFormula(Current)
                            <=> (Current.deepeval_comprehensive_answer = "True")
           IN  /\ BackendComp(Current.backend_evaluation)
                      = PyBool(BackendFormula(Current))
               /\ comparison'.comprehensive_answer_comparison.agreements
                      = Composite.agreements + (IF agree THEN 1 ELSE 0)
               /\ comparison'.comprehensive_answer_comparison.disagreements
                      = Composite.disagreements + (IF agree THEN 0 ELSE 1)]_vars

C6_Witness ==
    /\ pc = "done"
    /\ Len(results) = 1
    /\ ExternalPresent(results[1])
    /\ AllFlags(results[1])
    /\ results[1].backend_evaluation["is_speculative"] = "True"
    /\ results[1].backend_evaluation["is_question_answered"] = "True"
    /\ results[1].deepeval_comprehensive_answer = "False"
    /\ Composite.agreements = 1

\* the records evaluate_with_deepeval produced without error
Produced == {i \in 1..Len(results) : test_cases # <<>> /\ "error" \notin DOMAIN results[i]}

Passed(r, m) == r.deepeval_scores[m].passed = "True"

\* C7: in a record evaluate_with_deepeval produces, passed is score >=
\* threshold and deepeval_comprehensive_answer is the engine's formula on the
\* four passed values, so backend flags equal to the passed values give equal
\* composites.
C7_ExternalCompositeSameFormula ==
    \A i \in Produced :
        LET r == results[i]
            flags == [m \in Metrics |-> r.deepeval_scores[m].passed]
        IN  /\ \A m \in Metrics :
                   Passed(r, m) <=>
                       r.deepeval_scores[m].score >= r.deepeval_scores[m].threshold
            /\ \A m \in Metrics : r.deepeval_scores[m].threshold = threshold
            /\ (r.deepeval_comprehensive_answer = "True") <=>
                   Comprehensive(Passed(r, "is_question_answered"),
                                 Passed(r, "requires_additional_information"),
                                 Passed(r, "is_speculative"),
                                 Passed(r, "is_confident"))
            /\ r.deepeval_comprehensive_answer \in {"True", "False"}
            /\ BackendComp(flags) = r.deepeval_comprehensive_answer

C7_Witness ==
    /\ pc = "done"
    /\ Produced = {1}
    /\ AllFlags(results[1])
    /\ \A m \in Metrics :
           results[1].backend_evaluation[m] = results[1].deepeval_scores[m].passed
    /\ results[1].deepeval_comprehensive_answer = "True"
    /\ Composite.agreements = 1
    /\ Composite.disagreements = 0

\* C8: compare_results never raises, whatever records it is given.
C8_NeverRaises == pc # "raised"

\* C9: for the empty input every count is 0, every rate is 0.0 and the
\* disagreements list is empty.
C9_EmptyInput ==
    (pc = "done" /\ results = <<>>) =>
        /\ Summary.total_cases = 0
        /\ Summary.successful_evaluations = 0
        /\ Summary.failed_evaluations = 0
        /\ Summary.agreement_rate = <<0, 1>>
        /\ Composite.agreements = 0
        /\ Composite.disagreements = 0
        /\ Composite.agreement_rate = <<0, 1>>
        /\ \A m \in Metrics :
               /\ Stats(m).agreements = 0
               /\ Stats(m).disagreements = 0
               /\ Stats(m).total = 0
               /\ Stats(m).backend_true = 0
               /\ Stats(m).backend_false = 0
               /\ Stats(m).deepeval_true = 0
               /\ Stats(m).deepeval_false = 0
               /\ Stats(m).agreement_rate = <<0, 1>>
        /\ comparison.disagreements = <<>>

C9_Witness == pc = "done" /\ results = <<>> /\ Summary.total_cases = 0

\* the rate is the fraction n / d in lowest terms, or 0.0 when d is 0
IsRatio(rate, n, d) ==
    IF d > 0
    THEN /\ rate[2] > 0
         /\ rate[1] * d = n * rate[2]
         /\ \A k \in 2..d : ~(rate[1] % k = 0 /\ rate[2] % k = 0)
    ELSE rate = <<0, 1>>

\* C10: in the result each metric's agreement_rate is agreements / total, or
\* 0.0 when total is 0, and the composite agreement_rate is the composite
\* agreements over the composite comparisons made, or 0.0 when there are none.
C10_AgreementRates ==
    pc = "done" =>
        /\ \A m \in Metrics :
               IsRatio(Stats(m).agreement_rate, Stats(m).agreements, Stats(m).total)
        /\ IsRatio(Composite.agreement_rate, Composite.agreements,
                   Composite.agreements + Composite.disagreements)

C10_Witness ==
    /\ pc = "done"
    /\ Stats("requires_additional_information").total = 0
    /\ Stats("requires_additional_information").agreement_rate = <<0, 1>>
    /\ Stats("is_question_answered").total = 2
    /\ Stats("is_question_answered").agreement_rate = <<1, 2>>
    /\ Stats("is_confident").agreement_rate = <<1, 1>>
    /\ Composite.agreement_rate = <<1, 2>>

\* C11: the summary agreement_rate is the composite agreement_rate, a function
\* of the composite comparisons alone, whatever the per-metric agreement is.
C11_SummaryRateIsCompositeRate ==
    pc = "done" =>
        /\ Summary.agreement_rate = Composite.agreement_rate
        /\ IsRatio(Summary.agreement_rate, Composite.agreements,
                   Composite.agreements + Composite.disagreements)

C11_Witness ==
    /\ pc = "done"
    /\ Summary.agreement_rate = <<1, 1>>
    /\ Stats("is_question_answered").agreement_rate = <<0, 1>>
    /\ Stats("is_question_answered").total >= 1
    /\ Stats("is_confident").agreement_rate = <<1, 1>>

\* the record was compared: it has an external judgment and no error
Evaluated(r) == ExternalPresent(r) /\ ~ErrorSet(r)

\* the backend value of metric m is present and differs from passed
Differs(r, m) ==
    BackendHas(r, m) /\ r.backend_evaluation[m] # r.deepeval_scores[m].passed

\* what a disagreement entry says apart from the rationale
Shown(e) ==
    [file_name |-> e.file_name, question |-> e.question, metric |-> e.metric,
     backend_value |-> e.backend_value, deepeval_value |-> e.deepeval_value,
     deepeval_score |-> e.deepeval_score]

\* the entries of record r for its first k metrics, in metric order
RECURSIVE EntriesOfRecord(_, _)
EntriesOfRecord(r, k) ==
    IF k = 0 THEN <<>>
    ELSE LET m == metric_names[k]
         IN  IF Differs(r, m)
             THEN Append(EntriesOfRecord(r, k - 1),
                         [file_name |-> r.file_name, question |-> r.question,
                          metric |-> m,
                          backend_value |-> r.backend_evaluation[m],
                          deepeval_value |-> r.deepeval_scores[m].passed,
                          deepeval_score |-> r.deepeval_scores[m].score])
             ELSE EntriesOfRecord(r, k - 1)

\* the entries of the first n records, in input order
RECURSIVE EntriesUpTo(_)
EntriesUpTo(n) ==
    IF n = 0 THEN <<>>
    ELSE EntriesUpTo(n - 1) \o
         (IF Evaluated(results[n])
          THEN EntriesOfRecord(results[n], Len(metric_names)) ELSE <<>>)

RECURSIVE SumDisagreements(_)
SumDisagreements(k) ==
    IF k = 0 THEN 0
    ELSE SumDisagreements(k - 1) + Stats(metric_names[k]).disagreements

\* C12: the disagreements list holds exactly one entry per (record, metric)
\* of an evaluated record whose backend value is present and differs from
\* passed, in input order and metric order, with the record's file_name,
\* question, metric, both values and the score; its length is the sum of the
\* per-metric disagreements.
C12_DisagreementsListExact ==
    pc \in {"compare", "done"} =>
        /\ Len(comparison.disagreements) = Len(EntriesUpTo(idx))
        /\ \A k \in 1..Len(comparison.disagreements) :
               Shown(comparison.disagreements[k]) = EntriesUpTo(idx)[k]
        /\ Len(comparison.disagreements) = SumDisagreements(Len(metric_names))

C12_Witness ==
    /\ pc = "done"
    /\ Len(results) = 2
    /\ Len(comparison.disagreements) = 3
    /\ comparison.disagreements[1].file_name = "b.pdf"
    /\ comparison.disagreements[1].metric = "is_question_answered"
    /\ comparison.disagreements[2].metric = "is_speculative"
    /\ comparison.disagreements[3].file_name = "a.pdf"

\* the external composite is the formula on the four passed values
ExternalByFormula(r) ==
    r.deepeval_comprehensive_answer =
        PyBool(Comprehensive(Passed(r, "is_question_answered"),
                             Passed(r, "requires_additional_information"),
                             Passed(r, "is_speculative"),
                             Passed(r, "is_confident")))

\* one evaluated record in which is_question_answered is true for the backend
\* and not passed for the judge, and the other three metrics agree
ScenarioB ==
    /\ pc = "done"
    /\ Len(results) = 1
    /\ Evaluated(results[1])
    /\ AllFlags(results[1])
    /\ ExternalByFormula(results[1])
    /\ results[1].backend_evaluation["is_question_answered"] = "True"
    /\ ~Passed(results[1], "is_question_answered")
    /\ \A m \in Metrics \ {"is_question_answered"} :
           results[1].backend_evaluation[m] = results[1].deepeval_scores[m].passed

\* what scenario B says of the metric and of the disagreements list
ScenarioBMetric ==
    /\ Stats("is_question_answered").disagreements = 1
    /\ Stats("is_question_answered").agreements = 0
    /\ Len(comparison.disagreements) = 1
    /\ comparison.disagreements[1].metric = "is_question_answered"

\* C13 as stated: in scenario B the metric has one disagreement and no
\* agreement, the list has the one entry, and there is exactly one composite
\* disagreement, for every assignment of the three agreeing flags.
C13_ScenarioBAlwaysCompositeDisagreement ==
    ScenarioB => (ScenarioBMetric /\ Composite.disagreements = 1)

\* C13 amended: in scenario B the metric has one disagreement and no agreement
\* and the list has the one entry; the composite is a disagreement exactly
\* when the agreeing flags are requires_additional_information false,
\* is_speculative false and is_confident true, and an agreement otherwise.
C13_ScenarioBCompositeByFlags ==
    ScenarioB =>
        /\ ScenarioBMetric
        /\ Composite.agreements + Composite.disagreements = 1
        /\ Composite.disagreements = 1 <=>
               /\ results[1].backend_evaluation["requires_additional_information"] = "False"
               /\ results[1].backend_evaluation["is_speculative"] = "False"
               /\ results[1].backend_evaluation["is_confident"] = "True"

C13_Witness ==
    /\ ScenarioB
    /\ results[1].backend_evaluation["is_speculative"] = "True"
    /\ Composite.agreements = 1

\* every record is evaluated with four backend flags equal to the passed
\* values and an external composite by the formula
AllAgree ==
    /\ results # <<>>
    /\ \A i \in 1..Len(results) :
           /\ Evaluated(results[i])
           /\ ExternalComplete(results[i])
           /\ AllFlags(results[i])
           /\ "deepeval_comprehensive_answer" \in DOMAIN results[i]
           /\ ExternalByFormula(results[i])
           /\ \A m \in Metrics :
                  results[i].backend_evaluation[m] = results[i].deepeval_scores[m].passed

\* C14: when every record agrees on all four flags, the disagreements list is
\* empty, there is no composite disagreement and every agreement_rate is 1.0.
C14_FullAgreement ==
    (pc = "done" /\ AllAgree) =>
        /\ comparison.disagreements = <<>>
        /\ Composite.disagreements = 0
        /\ \A m \in Metrics : Stats(m).agreement_rate = <<1, 1>>
        /\ Composite.agreement_rate = <<1, 1>>
        /\ Summary.agreement_rate = <<1, 1>>

C14_Witness ==
    /\ pc = "done"
    /\ AllAgree
    /\ Len(results) = 2
    /\ Composite.agreements = 2
    /\ Stats("is_speculative").backend_false = 2

MetricStatsFields ==
    {"agreements", "disagreements", "total", "agreement_rate",
     "backend_true", "backend_false", "deepeval_true", "deepeval_false"}

\* C16 as stated: the composite record has the fields of MetricStats, with
\* agreements + disagreements = total.
C16_CompositeIsMetricStats ==
    pc = "done" =>
        /\ MetricStatsFields \subseteq DOMAIN Composite
        /\ Composite.agreements + Composite.disagreements = Composite.total

\* C16 amended: the composite record has agreements, disagreements and
\* agreement_rate and nothing else; agreements + disagreements is 0 exactly
\* when no record was evaluated, so a 0.0 rate without data is told from a
\* 0.0 rate with data.
C16_CompositeHasThreeFields ==
    pc = "done" =>
        /\ DOMAIN Composite = {"agreements", "disagreements", "agreement_rate"}
        /\ (Composite.agreements + Composite.disagreements = 0)
               <=> (Summary.successful_evaluations = 0)
        /\ (Composite.agreements + Composite.disagreements = 0)
               => Composite.agreement_rate = <<0, 1>>

C16_Witness ==
    /\ pc = "done"
    /\ Composite.agreement_rate = <<0, 1>>
    /\ Composite.agreements = 0
    /\ Composite.disagreements = 2

\* the entries load_test_cases can use, in iteration order
RECURSIVE EligibleUpTo(_)
EligibleUpTo(n) ==
    IF n = 0 THEN <<>>
    ELSE IF "golden_answer" \in DOMAIN dataset[n] /\ "backend_answer" \in DOMAIN dataset[n]
         THEN Append(EligibleUpTo(n - 1), dataset[n])
         ELSE EligibleUpTo(n - 1)

Eligible == EligibleUpTo(Len(dataset))

\* the (file, question) pairs of the test cases returned
Loaded == [k \in 1..Len(test_cases) |->
              <<test_cases[k].file_name, test_cases[k].question>>]

\* C17: load_test_cases(limit) returns at most limit test cases for every
\* integer limit, the first min(limit, N) eligible cases in iteration order,
\* and all N eligible cases when limit is None.  A negative limit, which no
\* count can be at most, is left out of the statement.
C17_AtMostLimit ==
    pc = "loaded" =>
        IF limit = NoneObj
        THEN /\ Len(test_cases) = Len(Eligible)
             /\ \A k \in 1..Len(test_cases) :
                    Loaded[k] = <<Eligible[k].file_name, Eligible[k].question>>
        ELSE IF limit.int < 0 THEN TRUE
        ELSE /\ Len(test_cases) <= limit.int
             /\ Len(test_cases) =
                    IF limit.int < Len(Eligible) THEN limit.int ELSE Len(Eligible)
             /\ \A k \in 1..Len(test_cases) :
                    Loaded[k] = <<Eligible[k].file_name, Eligible[k].question>>

\* the rationale of metric m in record r: the judge's reason when one was
\* given, the placeholder when the field is missing or holds no value
RationaleOf(r, m) ==
    IF "reason" \in DOMAIN r.deepeval_scores[m] /\ r.deepeval_scores[m].reason # None
    THEN r.deepeval_scores[m].reason
    ELSE "N/A"

\* C18: every disagreement entry appended for a record has a rationale text,
\* the judge's reason when one was given and "N/A" when the reason field is
\* missing or holds no value.
C18_RationaleIsText ==
    [][AtRecord /\ Evaluated(Current) /\ ExternalComplete(Current) /\ pc' = "compare" =>
          \A k \in (Len(comparison.disagreements) + 1)..Len(comparison'.disagreements) :
              comparison'.disagreements[k].deepeval_reason =
                  RationaleOf(Current, comparison'.disagreements[k].metric)]_vars

\* the results evaluate_with_deepeval appended from the except branch
Errored(n) == {i \in 1..n : "error" \in DOMAIN results[i]}

\* C19: evaluate_with_deepeval returns one result per test case, in input
\* order; a case whose measuring raised yields a record with an error, no
\* deepeval_scores and no deepeval_comprehensive_answer, which compare_results
\* counts as failed, and the cases after it are still evaluated.
C19_OneResultPerCase ==
    test_cases # <<>> =>
        /\ Len(results) <= Len(test_cases)
        /\ pc # "evaluate" => Len(results) = Len(test_cases)
        /\ \A i \in 1..Len(results) :
               /\ results[i].file_name = test_cases[i].file_name
               /\ results[i].question = test_cases[i].question
               /\ results[i].backend_answer = test_cases[i].backend_answer
               /\ results[i].backend_evaluation = test_cases[i].backend_evaluation
               /\ IF i \in Errored(Len(results))
                  THEN /\ results[i].deepeval_scores = NoneObj
                       /\ results[i].deepeval_comprehensive_answer = None
                  ELSE /\ DOMAIN results[i].deepeval_scores = Metrics
                       /\ results[i].deepeval_comprehensive_answer \in {"True", "False"}
        /\ pc \in {"compare", "done"} =>
               Summary.failed_evaluations = Cardinality(Errored(idx))

C19_Witness ==
    /\ pc = "done"
    /\ Len(test_cases) = 2
    /\ Errored(2) = {1}
    /\ results[1].error = "boom"
    /\ results[1].file_name = "b.pdf"
    /\ results[2].file_name = "a.pdf"
    /\ Summary.failed_evaluations = 1
    /\ Summary.successful_evaluations = 1

\* the record's backend judgment is a dict without a key for m
FlagMissing(r, m) ==
    /\ r.backend_evaluation # NoneObj
    /\ m \notin DOMAIN r.backend_evaluation

\* the backend judgment is partially populated: at least one flag is
\* missing, and every flag is missing or a boolean
PartialBackend(r) ==
    /\ "backend_evaluation" \in DOMAIN r
    /\ \E m \in Metrics : FlagMissing(r, m)
    /\ \A m \in Metrics : FlagMissing(r, m) \/ BackendHas(r, m)

\* the backend flag m of the record, false when it is missing
FlagOrFalse(r, m) ==
    IF m \in DOMAIN r.backend_evaluation THEN r.backend_evaluation[m] = "True" ELSE FALSE

====
